---- MODULE Spec2Model ----
(***************************************************************************)
(* FrameSync: the metadata store (database.py), the ingestion pipeline,    *)
(* the device endpoints and the bulk endpoints (server.py) and the frame   *)
(* script (rotate_image.py) as state machines.                             *)
(*                                                                         *)
(*   Spec        the metadata store: users, devices, images, assignments,  *)
(*               with set_image_devices run statement by statement on its  *)
(*               own connection (get_cursor commits or rolls back).        *)
(*   SpecIngest  the upload / rotate / delete handlers over the upload     *)
(*               folder, the thumbnails folder and the store.              *)
(*   SpecRegistry the device registry: upserts, deletes and heartbeats     *)
(*               with the clock passing from one second to the next.       *)
(*   SpecSelector the pick of the next image for a device (server.py and   *)
(*               rotate_image.py) and the display handler.                 *)
(*   SpecBulk    bulk delete and bulk device update, item by item.         *)
(*   SpecNotify  the notification queue.                                   *)
(*   SpecCatalogue the listings of the catalogue: get_all_images and       *)
(*               get_image_list over catalogues of up to two images.       *)
(*   SpecExif    extract_exif_data (backfill_exif.py) over files with a    *)
(*               few EXIF entries.                                         *)
(*   SpecDelete  display, single delete, bulk delete and a device's        *)
(*               request for its next image, interleaved.                  *)
(*   SpecUploader set_user_name beside the steps of an upload.             *)
(***************************************************************************)
EXTENDS Integers, Sequences, FiniteSets, TLC

\* ------------------------------------------------------------------ bounds
MaxImageId == 2
MaxDevList == 2
NumUploads == 2
MaxNow == 1
TicksPerSecond == 2
MaxBlobSize == 2
MaxThumbBytes == 1

\* ------------------------------------------------------ program constants
\* STORAGE_QUOTA, in the model's byte unit
StorageQuota == 3

\* ------------------------------------------------------- small input sets
DeviceIds == {"d1", "d2"}
Ips == {"ip1"}
UserNames == {"ip1", "Ann"}
Workers == {1}
Procs == 1..NumUploads

\* uploaded file names, as stem and extension
OrigNames == {[stem |-> "a", ext |-> "jpg"], [stem |-> "b c", ext |-> "jpg"],
              [stem |-> "n", ext |-> "txt"]}
NoName == [stem |-> "", ext |-> ""]

\* ALLOWED_EXTENSIONS
AllowedExtensions == {"png", "jpg", "jpeg", "gif", "bmp"}

\* allowed_file
AllowedFile(name) == name.ext # "" /\ name.ext \in AllowedExtensions

\* werkzeug secure_filename on the stems in use: whitespace becomes "_"
SecureFilename(stem) == IF stem = "b c" THEN "b_c" ELSE stem

SecureStems == {SecureFilename(n.stem) : n \in {m \in OrigNames : AllowedFile(m)}}

\* datetime.now().strftime('%Y%m%d_%H%M%S'): the clock cut to whole seconds
Timestamp(t) == t \div TicksPerSecond

\* f"{name}_{timestamp}{ext}"
FileName(stem, ts, ext) == <<stem, ts, ext>>
NoFile == <<"", 0, "">>
StoredNames == {FileName(st, Timestamp(t), "jpg") : st \in SecureStems, t \in 0..MaxNow}
NoId == 0
NoLock == 0
NoDevice == ""

CatalogueNames == {FileName(st, 0, "jpg") : st \in SecureStems}

RECURSIVE SeqsUpTo(_, _)
SeqsUpTo(S, n) ==
    IF n = 0 THEN {<<>>}
    ELSE LET shorter == SeqsUpTo(S, n - 1)
         IN  shorter \cup {Append(s, x) : s \in {t \in shorter : Len(t) = n - 1}, x \in S}

DevLists == SeqsUpTo(DeviceIds, MaxDevList)

Range(s) == {s[i] : i \in DOMAIN s}

EmptyMap == [x \in {} |-> 0]
Put(m, k, v) == [x \in DOMAIN m \cup {k} |-> IF x = k THEN v ELSE m[x]]
Remove(m, k) == [x \in DOMAIN m \ {k} |-> m[x]]

\* uploaded bytes: an identity, a length, whether Pillow can decode them,
\* and whether they are a re-encoding written by the rotate handler
Blobs == {[id |-> n, size |-> n, valid |-> TRUE, reenc |-> FALSE] : n \in 1..MaxBlobSize}
         \cup {[id |-> 0, size |-> 1, valid |-> FALSE, reenc |-> FALSE]}
NoBlob == [id |-> 0, size |-> 0, valid |-> FALSE, reenc |-> FALSE]

VARIABLES
    users,          \* users table: ip_address -> name (rows that exist)
    devices,        \* devices table: the device_id of every row
    images,         \* images table: rows [id, filename, uploader_ip, file_size]
    assignments,    \* image_device_assignments: rows [image_id, device_id]
    nextId,         \* next images.id handed out (cursor.lastrowid)
    dbLock,         \* connection holding the database write lock
    tx,             \* per connection: the set_image_devices call in progress
    lastOp,         \* the store call that returned last, with its outcome
    now,            \* the wall clock, in ticks
    files,          \* UPLOAD_FOLDER: stored filename -> bytes
    thumbs,         \* THUMBNAILS_FOLDER: stored filename -> length of the thumbnail
    up,             \* per upload request: how far upload_file has got
    accepted,       \* history: stored filename -> bytes of the upload answered with success
    deviceRow,      \* devices table: device_id -> the columns of its row
    current,        \* current_image_state
    devReq,         \* the device request in progress, between its two store calls
    reply,          \* the last answer of a device, display, bulk or notification call
    frame,          \* rotate_image.py: images granted in metadata.json, state.json, last run
    bulk,           \* the bulk request in progress or answered last
    notifications,  \* notifications table: rows [id, device_id, action, image_filename, created_at]
    nextNotif,      \* how many notification ids have been handed out, plus one
    drained,        \* the list get_device_notifications returned last, and for which device
    listing,        \* the list get_all_images / get_image_list returned last, with its arguments
    exif            \* the file extract_exif_data read last and the dictionary it returned

vars == <<users, devices, images, assignments, nextId, dbLock, tx, lastOp,
          now, files, thumbs, up, accepted, deviceRow, current, devReq, reply, frame, bulk,
          notifications, nextNotif, drained, listing, exif>>

readVars == <<listing, exif>>

queueVars == <<notifications, nextNotif, drained>>

svcVars == <<current, devReq, reply, frame, bulk, queueVars, readVars>>

fsVars == <<now, files, thumbs, up, accepted>>

committed == <<users, devices, images, assignments, nextId>>

\* ------------------------------------------------------------ connection
\* get_connection: PRAGMA foreign_keys = ON on every connection
ForeignKeysOff == FALSE
ForeignKeysOn == TRUE

\* ---------------------------------------------------------------- schema
\* db_schema.sql: image_device_assignments(image_id REFERENCES images,
\* device_id REFERENCES devices, both ON DELETE CASCADE, UNIQUE per pair);
\* images(filename UNIQUE, uploader_ip REFERENCES users)
AssignmentFkOk(imgs, devs, a) ==
    ForeignKeysOn => /\ \E r \in imgs : r.id = a.image_id
                     /\ a.device_id \in devs

AssignmentUniqueOk(asg, a) == a \notin asg

ImageFkOk(usrs, ip) == ForeignKeysOn => ip \in DOMAIN usrs

ImageUniqueOk(imgs, f) == \A r \in imgs : r.filename # f

CascadeAssignments(imgs, devs, asg) ==
    IF ForeignKeysOn
    THEN {a \in asg : (\E r \in imgs : r.id = a.image_id) /\ a.device_id \in devs}
    ELSE asg

\* ----------------------------------------------------------------- reads
ImageRows(f) == {r \in images : r.filename = f}

\* SELECT id FROM images WHERE filename = ?
ImageIdOf(f) == IF ImageRows(f) = {} THEN NoId ELSE (CHOOSE r \in ImageRows(f) : TRUE).id

AssignmentsOf(asg, id) == {a \in asg : a.image_id = id}

\* get_image_devices, as a set
GetImageDevices(f) == {a.device_id : a \in AssignmentsOf(assignments, ImageIdOf(f))}

\* get_device_images, as a set of filenames
GetDeviceImages(d) ==
    {r.filename : r \in {i \in images : \E a \in assignments :
                                           a.image_id = i.id /\ a.device_id = d}}

\* ------------------------------------------------------------ bookkeeping
Op(op, f, d, S, id, ret, before, inserted, cascaded) ==
    [op |-> op, filename |-> f, device |-> d, device_ids |-> S, image_id |-> id,
     ret |-> ret, before |-> before, inserted |-> inserted, cascaded |-> cascaded]

\* a call recorded together with the column values it was given
WithArgs(o, a) == [x \in DOMAIN o \cup {"args"} |-> IF x = "args" THEN a ELSE o[x]]

NoOp == Op("none", NoFile, NoDevice, <<>>, NoId, "none", {}, 0, 0)

IdleUp == [pc |-> "idle", name |-> NoName, blob |-> NoBlob, filename |-> NoFile,
           devs |-> <<>>, image_id |-> NoId, result |-> "none", thumb |-> "none"]

\* a request that has been answered: the answer, with the name and bytes of
\* a request turned away at the gates and the image row an upload that ended
\* in an error had inserted
TurnedAway(result) == result \in {"INVALID_FILE_TYPE", "QUOTA_EXCEEDED"}

Answered(u, result) ==
    [IdleUp EXCEPT !.pc = "done", !.result = result,
                   !.name = IF TurnedAway(result) THEN u.name ELSE NoName,
                   !.blob = IF TurnedAway(result) THEN u.blob ELSE NoBlob,
                   !.image_id = IF result = "UPLOAD_ERROR" THEN u.image_id ELSE NoId]

\* a device request between update_device_last_seen and get_device
IdleReq == [pc |-> "idle", device |-> NoDevice, at |-> 0]

\* the answer of a handler: its name, the device and file it was about (for
\* the pick of a next image: the current image it read), the status it
\* answered with and the image it named
Reply(op, d, f, status, image) ==
    [op |-> op, device |-> d, filename |-> f, status |-> status, image |-> image]

NoReply == Reply("none", NoDevice, NoFile, "none", NoFile)

\* rotate_image.py before its first run: nothing granted, no state.json
NoFrame == [allowed |-> {}, current |-> NoFile, all_images |-> {}, before |-> NoFile,
            picked |-> NoFile, code |-> 0]

\* bulk_delete_images / bulk_update_devices: the loop's position, deleted_count
\* or updated_count, the errors list, and what each item did to the main file
IdleBulk == [pc |-> "idle", op |-> "none", items |-> <<>>, devs |-> <<>>, i |-> 1,
             count |-> 0, errors |-> <<>>, log |-> <<>>, status |-> "none"]

\* no call of get_device_notifications has returned yet
NoDrain == [device |-> NoDevice, list |-> <<>>]

\* no listing has been asked for yet
NoListing == [op |-> "none", rows |-> <<>>]

\* Python's None in an EXIF field or column; a value v there is <<v>>, and a
\* date-time text is the tuple of its parts
None == <<>>

\* the dictionary extract_exif_data starts from: every field None
EmptyExif == [date_taken |-> None, camera_make |-> None, camera_model |-> None,
              gps_latitude |-> None, gps_longitude |-> None, gps_altitude |-> None,
              orientation |-> None]
NoExif == [pc |-> "none", opened |-> FALSE, tags |-> <<>>, result |-> EmptyExif,
           raised |-> FALSE]

IdleTx == [pc |-> "idle", filename |-> NoFile, device_ids |-> <<>>, image_id |-> NoId,
           rest |-> <<>>, work |-> {}, before |-> {}, inserted |-> 0]

\* --------------------------------------------------------- get_cursor
\* commit: the connection's uncommitted rows become the table
Commit(w) == tx[w].work

\* rollback: the table stays as last committed
RollbackKeepsPartial(w) == tx[w].work
Rollback(w) == assignments

\* ------------------------------------------------------------------ users
\* create_or_update_user
UpsertedUsers(usrs, ip, name) ==
    [i \in DOMAIN usrs \cup {ip} |-> IF i = ip THEN name ELSE usrs[i]]

UpsertUser(ip, name) ==
    /\ dbLock = NoLock
    /\ users' = UpsertedUsers(users, ip, name)
    /\ lastOp' = Op("upsertUser", NoFile, NoDevice, <<>>, NoId, "ok", {}, 0, 0)
    /\ UNCHANGED <<devices, images, assignments, nextId, dbLock, tx>>
    /\ UNCHANGED <<fsVars, deviceRow, svcVars>>

\* ---------------------------------------------------------------- devices
\* db_schema.sql: registered_at and last_seen_at default to the insertion time
NewDeviceRow(name, type, meta, t) ==
    [name |-> name, device_type |-> type, metadata |-> meta,
     registered_at |-> t, last_seen_at |-> t]

\* ON CONFLICT(device_id) DO UPDATE SET name, device_type, metadata_json,
\* last_seen_at: registered_at is not in the SET list
UpsertRegisteredAtNow(old, t) == t
UpsertRegisteredAt(old, t) == old

UpdatedDeviceRow(row, name, type, meta, t) ==
    [name |-> name, device_type |-> type, metadata |-> meta,
     registered_at |-> UpsertRegisteredAt(row.registered_at, t), last_seen_at |-> t]

\* create_or_update_device
UpsertDevice(d, name, type, meta) ==
    /\ dbLock = NoLock
    /\ devices' = devices \cup {d}
    /\ deviceRow' = Put(deviceRow, d,
                        IF d \in devices
                        THEN UpdatedDeviceRow(deviceRow[d], name, type, meta, Timestamp(now))
                        ELSE NewDeviceRow(name, type, meta, Timestamp(now)))
    /\ lastOp' = WithArgs(Op("upsertDevice", NoFile, d, <<>>, NoId,
                             IF d \in devices THEN "updated" ELSE "inserted", {}, 0, 0),
                          [name |-> name, device_type |-> type, metadata |-> meta])
    /\ UNCHANGED <<users, images, assignments, nextId, dbLock, tx>>
    /\ UNCHANGED <<fsVars, svcVars>>

\* update_device_last_seen: UPDATE devices SET last_seen_at = datetime('now')
LastSeenKept(row, t) == row
LastSeenRefreshed(row, t) == [row EXCEPT !.last_seen_at = t]

UpdateDeviceLastSeen(rows, d, t) ==
    [x \in DOMAIN rows |-> IF x = d THEN LastSeenRefreshed(rows[x], t) ELSE rows[x]]

\* delete_device
DeleteDevice(d) ==
    /\ dbLock = NoLock
    /\ devices' = devices \ {d}
    /\ assignments' = CascadeAssignments(images, devices', assignments)
    /\ lastOp' = Op("deleteDevice", NoFile, d, <<>>, NoId,
                    IF d \in devices THEN "true" ELSE "false", {}, 0,
                    Cardinality(assignments \ assignments'))
    /\ deviceRow' = Remove(deviceRow, d)
    /\ UNCHANGED <<users, images, nextId, dbLock, tx>>
    /\ UNCHANGED <<fsVars, svcVars>>

\* ----------------------------------------------------------------- images
NewImageRow(id, f, ip, size) ==
    [id |-> id, filename |-> f, uploader_ip |-> ip, file_size |-> size]

\* get_cursor around the INSERT of create_image: a rejected INSERT is rolled back
FailedInsertKept(imgs, row) == imgs \cup {row}
RolledBackImages(imgs, row) == imgs

\* create_image
CreateImage(f, ip, size) ==
    /\ dbLock = NoLock
    /\ nextId <= MaxImageId
    /\ IF ImageUniqueOk(images, f) /\ ImageFkOk(users, ip)
       THEN /\ images' = images \cup {NewImageRow(nextId, f, ip, size)}
            /\ nextId' = nextId + 1
            /\ lastOp' = Op("createImage", f, NoDevice, <<>>, nextId, "ok", {}, 0, 0)
       ELSE /\ lastOp' = Op("createImage", f, NoDevice, <<>>, NoId, "IntegrityError", {}, 0, 0)
            /\ images' = RolledBackImages(images, NewImageRow(nextId, f, ip, size))
            /\ UNCHANGED nextId
    /\ UNCHANGED <<users, devices, assignments, dbLock, tx>>
    /\ UNCHANGED <<fsVars, deviceRow, svcVars>>

\* delete_image: DELETE FROM images WHERE filename = ?
DeletedRowsAll(f) == images
DeletedRows(f) == ImageRows(f)

DeleteImage(f) ==
    /\ dbLock = NoLock
    /\ images' = images \ DeletedRows(f)
    /\ assignments' = CascadeAssignments(images', devices, assignments)
    /\ lastOp' = Op("deleteImage", f, NoDevice, <<>>, ImageIdOf(f),
                    IF DeletedRows(f) # {} THEN "true" ELSE "false",
                    GetImageDevices(f), 0, Cardinality(assignments \ assignments'))
    /\ UNCHANGED <<users, devices, nextId, dbLock, tx>>
    /\ UNCHANGED <<fsVars, deviceRow, svcVars>>

\* ------------------------------------------------------------ assignments
\* assign_image_to_device: INSERT OR IGNORE (a foreign-key failure still raises)
AssignImageToDevice(f, d) ==
    /\ dbLock = NoLock
    /\ LET id == ImageIdOf(f)
           a == [image_id |-> id, device_id |-> d]
       IN  IF id = NoId
           THEN /\ lastOp' = Op("assign", f, d, <<>>, NoId, "false", {}, 0, 0)
                /\ UNCHANGED assignments
           ELSE IF ~AssignmentUniqueOk(assignments, a)
           THEN /\ lastOp' = Op("assign", f, d, <<>>, id, "false", {}, 0, 0)
                /\ UNCHANGED assignments
           ELSE IF ~AssignmentFkOk(images, devices, a)
           THEN /\ lastOp' = Op("assign", f, d, <<>>, id, "IntegrityError", {}, 0, 0)
                /\ UNCHANGED assignments
           ELSE /\ assignments' = assignments \cup {a}
                /\ lastOp' = Op("assign", f, d, <<>>, id, "true", {}, 1, 0)
    /\ UNCHANGED <<users, devices, images, nextId, dbLock, tx>>
    /\ UNCHANGED <<fsVars, deviceRow, svcVars>>

\* unassign_image_from_device
UnassignImageFromDevice(f, d) ==
    /\ dbLock = NoLock
    /\ LET a == [image_id |-> ImageIdOf(f), device_id |-> d]
       IN  /\ assignments' = assignments \ {a}
           /\ lastOp' = Op("unassign", f, d, <<>>, ImageIdOf(f),
                           IF a \in assignments THEN "true" ELSE "false", {}, 0, 0)
    /\ UNCHANGED <<users, devices, images, nextId, dbLock, tx>>
    /\ UNCHANGED <<fsVars, deviceRow, svcVars>>

\* set_image_devices, statement by statement on connection w ---------------
\* SELECT id FROM images WHERE filename = ?  (raise ValueError when absent)
SidSelect(w, f, S) ==
    /\ tx[w].pc = "idle"
    /\ IF ImageRows(f) = {}
       THEN /\ assignments' = Rollback(w)
            /\ lastOp' = Op("setImageDevices", f, NoDevice, S, NoId, "NotFound", {}, 0, 0)
            /\ UNCHANGED tx
       ELSE /\ tx' = [tx EXCEPT ![w] = [pc |-> "delete", filename |-> f, device_ids |-> S,
                                        image_id |-> ImageIdOf(f), rest |-> S, work |-> {},
                                        before |-> GetImageDevices(f), inserted |-> 0]]
            /\ lastOp' = Op("sid:select", f, NoDevice, S, ImageIdOf(f), "row", {}, 0, 0)
            /\ UNCHANGED assignments
    /\ UNCHANGED <<users, devices, images, nextId, dbLock>>
    /\ UNCHANGED <<fsVars, deviceRow, svcVars>>

\* DELETE FROM image_device_assignments WHERE image_id = ?
KeepExisting(asg, id) == asg
DeleteExisting(asg, id) == asg \ AssignmentsOf(asg, id)

SidDelete(w) ==
    /\ tx[w].pc = "delete"
    /\ dbLock = NoLock
    /\ dbLock' = w
    /\ tx' = [tx EXCEPT ![w].pc = "insert",
                        ![w].work = DeleteExisting(assignments, tx[w].image_id)]
    /\ lastOp' = Op("sid:delete", tx[w].filename, NoDevice, tx[w].device_ids,
                    tx[w].image_id, "none", {}, 0, 0)
    /\ UNCHANGED <<users, devices, images, assignments, nextId>>
    /\ UNCHANGED <<fsVars, deviceRow, svcVars>>

\* INSERT INTO image_device_assignments (image_id, device_id), one device
SidInsert(w) ==
    /\ tx[w].pc = "insert"
    /\ dbLock = w
    /\ tx[w].rest # <<>>
    /\ LET a == [image_id |-> tx[w].image_id, device_id |-> Head(tx[w].rest)]
       IN  IF AssignmentUniqueOk(tx[w].work, a) /\ AssignmentFkOk(images, devices, a)
           THEN /\ tx' = [tx EXCEPT ![w].work = tx[w].work \cup {a},
                                    ![w].rest = Tail(tx[w].rest),
                                    ![w].inserted = tx[w].inserted + 1]
                /\ lastOp' = Op("sid:insert", tx[w].filename, a.device_id, tx[w].device_ids,
                                tx[w].image_id, "none", {}, 0, 0)
                /\ UNCHANGED <<assignments, dbLock>>
           ELSE /\ assignments' = Rollback(w)
                /\ dbLock' = NoLock
                /\ tx' = [tx EXCEPT ![w] = IdleTx]
                /\ lastOp' = Op("setImageDevices", tx[w].filename, a.device_id,
                                tx[w].device_ids, tx[w].image_id, "IntegrityError",
                                tx[w].before, tx[w].inserted, 0)
    /\ UNCHANGED <<users, devices, images, nextId>>
    /\ UNCHANGED <<fsVars, deviceRow, svcVars>>

\* leaving the with block: conn.commit()
SidCommit(w) ==
    /\ tx[w].pc = "insert"
    /\ dbLock = w
    /\ tx[w].rest = <<>>
    /\ assignments' = Commit(w)
    /\ dbLock' = NoLock
    /\ tx' = [tx EXCEPT ![w] = IdleTx]
    /\ lastOp' = Op("setImageDevices", tx[w].filename, NoDevice, tx[w].device_ids,
                    tx[w].image_id, "ok", tx[w].before, tx[w].inserted, 0)
    /\ UNCHANGED <<users, devices, images, nextId>>
    /\ UNCHANGED <<fsVars, deviceRow, svcVars>>

\* ------------------------------------------------------------ store spec
Init ==
    /\ users = EmptyMap
    /\ devices = {}
    /\ images = {}
    /\ assignments = {}
    /\ nextId = 1
    /\ dbLock = NoLock
    /\ tx = [w \in Workers |-> IdleTx]
    /\ lastOp = NoOp
    /\ now = 0
    /\ files = EmptyMap
    /\ thumbs = EmptyMap
    /\ up = [p \in Procs |-> IdleUp]
    /\ accepted = EmptyMap
    /\ deviceRow = EmptyMap
    /\ current = NoFile
    /\ devReq = IdleReq
    /\ reply = NoReply
    /\ frame = NoFrame
    /\ bulk = IdleBulk
    /\ notifications = {}
    /\ nextNotif = 1
    /\ drained = NoDrain
    /\ listing = NoListing
    /\ exif = NoExif

Next ==
    \/ \E ip \in Ips, name \in {"Ann"} : UpsertUser(ip, name)
    \/ \E d \in DeviceIds : UpsertDevice(d, "Frame", "display", "m0")
    \/ \E d \in DeviceIds : DeleteDevice(d)
    \/ \E f \in CatalogueNames, ip \in Ips : CreateImage(f, ip, 1)
    \/ \E f \in CatalogueNames : DeleteImage(f)
    \/ \E f \in CatalogueNames, d \in DeviceIds : AssignImageToDevice(f, d)
    \/ \E f \in CatalogueNames, d \in DeviceIds : UnassignImageFromDevice(f, d)
    \/ \E w \in Workers, f \in CatalogueNames, S \in DevLists : SidSelect(w, f, S)
    \/ \E w \in Workers : SidDelete(w)
    \/ \E w \in Workers : SidInsert(w)
    \/ \E w \in Workers : SidCommit(w)

Spec == Init /\ [][Next]_vars

\* ------------------------------------------------- properties of the store
StoreUnchanged == UNCHANGED <<users, devices, images, assignments, nextId>>

\* C1: once setImageDevices(f, S) has returned successfully for an image row
\* that exists, getImageDevices(f) is exactly the set of members of S: no
\* member is missing and no earlier assignment of f is left over.
C1_AssignmentFidelity ==
    ( /\ lastOp.op = "setImageDevices"
      /\ lastOp.ret = "ok"
      /\ \E r \in images : r.filename = lastOp.filename /\ r.id = lastOp.image_id )
    => GetImageDevices(lastOp.filename) = Range(lastOp.device_ids)

\* a successful replacement that dropped an old device and added a new one
C1_Witness ==
    /\ lastOp.op = "setImageDevices"
    /\ lastOp.ret = "ok"
    /\ lastOp.before \ Range(lastOp.device_ids) # {}
    /\ Range(lastOp.device_ids) \ lastOp.before # {}
    /\ GetImageDevices(lastOp.filename) = Range(lastOp.device_ids)

\* C2: setImageDevices is all-or-nothing. Every statement of the call other
\* than the commit of a fully inserted list leaves the committed tables as
\* they were, and a call that fails (NotFound, or an insert rejected part-way)
\* returns with the committed tables unchanged.
C2_AllOrNothing ==
    [][ /\ \A w \in Workers :
              (tx'[w] # tx[w] /\ ~(tx[w].pc = "insert" /\ tx[w].rest = <<>>))
              => StoreUnchanged
        /\ ( /\ lastOp' # lastOp
             /\ lastOp'.op = "setImageDevices"
             /\ lastOp'.ret # "ok" )
           => StoreUnchanged
      ]_vars

\* a call that failed after it had deleted old rows and inserted a new one
C2_Witness ==
    /\ lastOp.op = "setImageDevices"
    /\ lastOp.ret = "IntegrityError"
    /\ lastOp.inserted >= 1
    /\ lastOp.before # {}
    /\ GetImageDevices(lastOp.filename) = lastOp.before

\* C4: every assignment row references an image row and a device row that
\* exist, and after deleteDevice / deleteImage no assignment row mentions the
\* deleted endpoint.
C4_AssignmentEndpointsExist ==
    /\ \A a \in assignments : /\ \E r \in images : r.id = a.image_id
                              /\ a.device_id \in devices
    /\ lastOp.op = "deleteDevice" =>
           \A a \in assignments : a.device_id # lastOp.device
    /\ lastOp.op = "deleteImage" =>
           \A a \in assignments : a.image_id # lastOp.image_id

\* a device was deleted and took assignment rows with it
C4_Witness ==
    /\ lastOp.op = "deleteDevice"
    /\ lastOp.ret = "true"
    /\ lastOp.cascaded >= 1
    /\ assignments # {}

\* C5: deleteImage(f) returns true exactly when a row for f existed; after it
\* there is no image row and no assignment row for f, every other image row
\* and assignment row is unchanged, and deleteImage(f) right after a
\* deleteImage(f) returns false.
DeleteImageStep(f) ==
    /\ lastOp' # lastOp
    /\ lastOp'.op = "deleteImage"
    /\ lastOp'.filename = f

C5_DeleteImage ==
    [][ \A f \in CatalogueNames : DeleteImageStep(f) =>
          /\ (lastOp'.ret = "true") <=> (ImageRows(f) # {})
          /\ \A r \in images' : r.filename # f
          /\ \A a \in assignments' : a.image_id # ImageIdOf(f)
          /\ images' = {r \in images : r.filename # f}
          /\ assignments' = {a \in assignments : a.image_id # ImageIdOf(f)}
          /\ (lastOp.op = "deleteImage" /\ lastOp.filename = f) => lastOp'.ret = "false"
      ]_vars

\* an assigned image was deleted while another image stayed
C5_Witness ==
    /\ lastOp.op = "deleteImage"
    /\ lastOp.ret = "true"
    /\ lastOp.cascaded >= 1
    /\ images # {}
    /\ ImageRows(lastOp.filename) = {}

\* C15: createImage for a filename that already has a row fails and leaves
\* the images and the assignments as they were; no two image rows ever have
\* the same filename.
C15_DuplicateImage ==
    [][ /\ \A r1, r2 \in images' : r1.filename = r2.filename => r1 = r2
        /\ (lastOp'.op = "createImage" /\ ImageRows(lastOp'.filename) # {}) =>
              /\ lastOp'.ret = "IntegrityError"
              /\ images' = images
              /\ assignments' = assignments
      ]_vars

C15_Witness ==
    /\ lastOp.op = "createImage"
    /\ lastOp.ret = "IntegrityError"
    /\ ImageRows(lastOp.filename) # {}
    /\ GetImageDevices(lastOp.filename) # {}

\* ==================================================== ingestion pipeline
storeIdle == <<dbLock, tx, lastOp>>

RECURSIVE SumSizes(_, _)
SumSizes(m, keys) ==
    IF keys = {} THEN 0
    ELSE LET k == CHOOSE x \in keys : TRUE
         IN  m[k] + SumSizes(m, keys \ {k})

\* calculate_storage_usage: images_bytes, thumbnails_bytes, total_bytes
ImagesBytes(fs) == SumSizes([f \in DOMAIN fs |-> fs[f].size], DOMAIN fs)
ThumbnailsBytes(th) == SumSizes(th, DOMAIN th)
TotalBytes(fs, th) == ImagesBytes(fs) + ThumbnailsBytes(th)

\* calculate_storage_usage: quota_available_bytes = max(0, quota - total)
QuotaAvailableBytes(fs, th) ==
    IF StorageQuota - TotalBytes(fs, th) > 0 THEN StorageQuota - TotalBytes(fs, th) ELSE 0

\* upload_file: if storage['quota_available_bytes'] < file_size
QuotaRejectsOffByOne(avail, size) == avail + 1 < size
QuotaRejects(avail, size) == avail < size

\* validate_image_file on the file now at the path
ValidateImageFile(fs, f) == f \in DOMAIN fs /\ fs[f].valid

\* generate_thumbnail: writes THUMBNAILS_FOLDER/filename, or fails and
\* leaves the folder as it was
GenerateThumbnail(fs, th, f, ok, n) ==
    IF ok /\ ValidateImageFile(fs, f) THEN Put(th, f, n) ELSE th

\* uploaded_file: send_from_directory(UPLOAD_FOLDER, filename)
UploadedFile(f) == files[f]

\* INSERT of device_ids in order inside one get_cursor block
RECURSIVE InsertAll(_, _, _)
InsertAll(work, id, rest) ==
    IF rest = <<>> THEN [ok |-> TRUE, asg |-> work]
    ELSE LET a == [image_id |-> id, device_id |-> Head(rest)]
         IN  IF AssignmentUniqueOk(work, a) /\ AssignmentFkOk(images, devices, a)
             THEN InsertAll(work \cup {a}, id, Tail(rest))
             ELSE [ok |-> FALSE, asg |-> assignments]

\* set_image_devices as one committed or rolled-back call
SetImageDevices(f, S) ==
    IF ImageRows(f) = {} THEN [ok |-> FALSE, asg |-> assignments]
    ELSE InsertAll(DeleteExisting(assignments, ImageIdOf(f)), ImageIdOf(f), S)

UploadDevLists == {<<>>, <<"d1">>, <<"d2">>}

\* upload_file, lines 638-660: extension gate, then the quota pre-check
UploadBegin(p, name, blob) ==
    /\ up[p].pc = "idle"
    /\ LET req == [IdleUp EXCEPT !.name = name, !.blob = blob]
       IN  up' = [up EXCEPT ![p] =
                 IF ~AllowedFile(name)
                 THEN Answered(req, "INVALID_FILE_TYPE")
                 ELSE IF QuotaRejects(QuotaAvailableBytes(files, thumbs), blob.size)
                 THEN Answered(req, "QUOTA_EXCEEDED")
                 ELSE [req EXCEPT !.pc = "save"]]
    /\ UNCHANGED <<users, devices, images, assignments, nextId, now, files, thumbs, accepted>>
    /\ UNCHANGED <<storeIdle, deviceRow, svcVars>>

\* upload_file, lines 662-669: name the file and file.save(filepath)
StoredNameFor(name, t) == FileName(SecureFilename(name.stem), Timestamp(t), name.ext)

UploadSave(p) ==
    /\ up[p].pc = "save"
    /\ LET f == StoredNameFor(up[p].name, now)
       IN  /\ files' = Put(files, f, up[p].blob)
           /\ up' = [up EXCEPT ![p].filename = f, ![p].pc = "validate"]
    /\ UNCHANGED <<users, devices, images, assignments, nextId, now, thumbs, accepted>>
    /\ UNCHANGED <<storeIdle, deviceRow, svcVars>>

\* upload_file, lines 671-679: validate, and remove the file when invalid
UploadValidate(p) ==
    /\ up[p].pc = "validate"
    /\ IF ValidateImageFile(files, up[p].filename)
       THEN /\ up' = [up EXCEPT ![p].pc = "thumb"]
            /\ UNCHANGED files
       ELSE /\ files' = Remove(files, up[p].filename)
            /\ up' = [up EXCEPT ![p] = Answered(up[p], "INVALID_IMAGE")]
    /\ UNCHANGED <<users, devices, images, assignments, nextId, now, thumbs, accepted>>
    /\ UNCHANGED <<storeIdle, deviceRow, svcVars>>

\* upload_file, lines 681-685: thumbnail, failure only logged
UploadThumb(p, ok, n) ==
    /\ up[p].pc = "thumb"
    /\ thumbs' = GenerateThumbnail(files, thumbs, up[p].filename, ok, n)
    /\ up' = [up EXCEPT ![p].pc = "register",
                        ![p].thumb = IF ok /\ ValidateImageFile(files, up[p].filename)
                                     THEN "ok" ELSE "failed"]
    /\ UNCHANGED <<users, devices, images, assignments, nextId, now, files, accepted>>
    /\ UNCHANGED <<storeIdle, deviceRow, svcVars>>

\* add_image_metadata, line 239: os.path.getsize(filepath), None when absent
FileSizeOf(fs, f) == IF f \in DOMAIN fs THEN fs[f].size ELSE 0

\* add_image_metadata, lines 238-260: db.create_or_update_user(ip, ip), then
\* db.create_image, each committed on its own
UploadRegister(p, ip, devs) ==
    /\ up[p].pc = "register"
    /\ users' = UpsertedUsers(users, ip, ip)
    /\ LET f == up[p].filename
       IN  IF ImageUniqueOk(images, f) /\ ImageFkOk(users', ip)
           THEN /\ images' = images \cup {NewImageRow(nextId, f, ip, FileSizeOf(files, f))}
                /\ nextId' = nextId + 1
                /\ IF devs = <<>>
                   THEN /\ up' = [up EXCEPT ![p] =
                                     Answered([up[p] EXCEPT !.image_id = nextId], "ok")]
                        /\ accepted' = Put(accepted, f, up[p].blob)
                   ELSE /\ up' = [up EXCEPT ![p].image_id = nextId, ![p].devs = devs,
                                            ![p].pc = "assign"]
                        /\ UNCHANGED accepted
           ELSE /\ up' = [up EXCEPT ![p] = Answered(up[p], "UPLOAD_ERROR")]
                /\ UNCHANGED <<images, nextId, accepted>>
    /\ UNCHANGED <<devices, assignments, now, files, thumbs>>
    /\ UNCHANGED <<storeIdle, deviceRow, svcVars>>

\* add_image_metadata, lines 263-264: db.set_image_devices, a second unit
UploadSetDevices(p) ==
    /\ up[p].pc = "assign"
    /\ LET r == SetImageDevices(up[p].filename, up[p].devs)
       IN  /\ assignments' = r.asg
           /\ IF r.ok
              THEN /\ up' = [up EXCEPT ![p] = Answered(up[p], "ok")]
                   /\ accepted' = Put(accepted, up[p].filename, up[p].blob)
              ELSE /\ up' = [up EXCEPT ![p] = Answered(up[p], "UPLOAD_ERROR")]
                   /\ UNCHANGED accepted
    /\ UNCHANGED <<users, devices, images, nextId, now, files, thumbs>>
    /\ UNCHANGED <<storeIdle, deviceRow, svcVars>>

\* server.delete_image
DeleteImageRequest(f) ==
    /\ f \in DOMAIN files
    /\ files' = Remove(files, f)
    /\ thumbs' = Remove(thumbs, f)
    /\ images' = images \ DeletedRows(f)
    /\ assignments' = CascadeAssignments(images', devices, assignments)
    /\ accepted' = Remove(accepted, f)
    /\ current' = IF current = f THEN NoFile ELSE current
    /\ UNCHANGED <<users, devices, nextId, now, up>>
    /\ UNCHANGED <<storeIdle, deviceRow, devReq, reply, frame, bulk, queueVars, readVars>>

\* server.rotate_image: rotated.save(filepath) rewrites the original in place
Angles == {90, 180, 270}
RotatedSizes(n) == {m \in 1..MaxBlobSize : m \in {n - 1, n, n + 1}}
Rotated(c, m) == [c EXCEPT !.size = m, !.reenc = TRUE]

RotateImageRequest(f, angle, m, ok, n) ==
    /\ f \in DOMAIN files
    /\ angle \in Angles
    /\ files[f].valid
    /\ m \in RotatedSizes(files[f].size)
    /\ files' = [files EXCEPT ![f] = Rotated(files[f], m)]
    /\ thumbs' = GenerateThumbnail(files', thumbs, f, ok, n)
    /\ UNCHANGED <<users, devices, images, assignments, nextId, now, up, accepted>>
    /\ UNCHANGED <<storeIdle, deviceRow, svcVars>>

\* server.thumbnail_file: a missing thumbnail is generated on the read
ThumbnailFileRequest(f, ok, n) ==
    /\ f \notin DOMAIN thumbs
    /\ f \in DOMAIN files
    /\ thumbs' = GenerateThumbnail(files, thumbs, f, ok, n)
    /\ UNCHANGED <<users, devices, images, assignments, nextId, now, files, up, accepted>>
    /\ UNCHANGED <<storeIdle, deviceRow, svcVars>>

\* server.update_image_devices_endpoint
UpdateImageDevicesRequest(f, S) ==
    /\ f \in DOMAIN files
    /\ Range(S) \subseteq devices
    /\ assignments' = SetImageDevices(f, S).asg
    /\ UNCHANGED <<users, devices, images, nextId, now, files, thumbs, up, accepted>>
    /\ UNCHANGED <<storeIdle, deviceRow, svcVars>>

\* the wall clock advances
Tick ==
    /\ now < MaxNow
    /\ now' = now + 1
    /\ UNCHANGED <<users, devices, images, assignments, nextId, files, thumbs, up, accepted>>
    /\ UNCHANGED <<storeIdle, deviceRow, svcVars>>

InitIngest ==
    /\ users = EmptyMap
    /\ devices = {"d1"}
    /\ images = {}
    /\ assignments = {}
    /\ nextId = 1
    /\ dbLock = NoLock
    /\ tx = [w \in Workers |-> IdleTx]
    /\ lastOp = NoOp
    /\ now = 0
    /\ files = EmptyMap
    /\ thumbs = EmptyMap
    /\ up = [p \in Procs |-> IdleUp]
    /\ accepted = EmptyMap
    /\ deviceRow = [d \in {"d1"} |-> NewDeviceRow("Frame", "display", "m0", 0)]
    /\ current = NoFile
    /\ devReq = IdleReq
    /\ reply = NoReply
    /\ frame = NoFrame
    /\ bulk = IdleBulk
    /\ notifications = {}
    /\ nextNotif = 1
    /\ drained = NoDrain
    /\ listing = NoListing
    /\ exif = NoExif

NextIngest ==
    \/ \E p \in Procs, name \in OrigNames, blob \in Blobs : UploadBegin(p, name, blob)
    \/ \E p \in Procs : UploadSave(p)
    \/ \E p \in Procs : UploadValidate(p)
    \/ \E p \in Procs, ok \in BOOLEAN, n \in 1..MaxThumbBytes : UploadThumb(p, ok, n)
    \/ \E p \in Procs, ip \in Ips, devs \in UploadDevLists : UploadRegister(p, ip, devs)
    \/ \E p \in Procs : UploadSetDevices(p)
    \/ \E f \in StoredNames : DeleteImageRequest(f)
    \/ \E f \in StoredNames, angle \in {90, 45}, m \in 1..MaxBlobSize, ok \in BOOLEAN,
          n \in 1..MaxThumbBytes : RotateImageRequest(f, angle, m, ok, n)
    \/ \E f \in StoredNames, ok \in BOOLEAN, n \in 1..MaxThumbBytes : ThumbnailFileRequest(f, ok, n)
    \/ \E f \in StoredNames, S \in {<<>>, <<"d1">>} : UpdateImageDevicesRequest(f, S)
    \/ Tick

SpecIngest == InitIngest /\ [][NextIngest]_vars

\* ------------------------------------------- properties of the ingestion
\* C3: the image row of an upload that supplied device ids and its
\* assignment set are one unit: the row is never visible without the
\* requested assignments, and an upload that ends in an error after its row
\* was inserted leaves no row behind.
C3_RegisteredAsOneUnit ==
    \A p \in Procs :
        /\ (up[p].pc = "assign" /\ \E r \in images : r.id = up[p].image_id)
               => GetImageDevices(up[p].filename) = Range(up[p].devs)
        /\ (up[p].result = "UPLOAD_ERROR" /\ up[p].image_id # NoId)
               => ~\E r \in images : r.id = up[p].image_id

\* C6: an upload of undecodable bytes ends in InvalidImage, and when it has
\* there is no catalogue row and no file in the upload or thumbnails folder
\* under its stored name.
C6_InvalidUploadLeavesNothing ==
    [][ \A p \in Procs :
          (up[p].pc = "validate" /\ ~up[p].blob.valid /\ up'[p] # up[p]) =>
              /\ up'[p].result = "INVALID_IMAGE"
              /\ up[p].filename \notin DOMAIN files'
              /\ up[p].filename \notin DOMAIN thumbs'
              /\ \A r \in images' : r.filename # up[p].filename
      ]_vars

\* C7: an upload that reaches the quota pre-check with more bytes than the
\* available bytes the accountant reports is answered QuotaExceeded, and the
\* step persists nothing: no file, no thumbnail, no catalogue row.
C7_QuotaPreCheck ==
    [][ \A p \in Procs :
          ( /\ up[p].pc = "idle"
            /\ up'[p].pc # "idle"
            /\ AllowedFile(up'[p].name)
            /\ up'[p].blob.size > QuotaAvailableBytes(files, thumbs) ) =>
              /\ up'[p].pc = "done"
              /\ up'[p].result = "QUOTA_EXCEEDED"
              /\ up'[p].filename = NoFile
              /\ UNCHANGED <<files, thumbs, images, assignments, users>>
      ]_vars

\* part of the quota is free, and an upload larger than what is free was
\* turned away
C7_Witness ==
    \E p \in Procs :
        /\ up[p].result = "QUOTA_EXCEEDED"
        /\ QuotaAvailableBytes(files, thumbs) > 0
        /\ up[p].blob.size > QuotaAvailableBytes(files, thumbs)
        /\ up[p].blob.size <= StorageQuota

\* C8: the bytes stored in the upload and thumbnails folders never exceed
\* the quota.
C8_QuotaIsCeiling == TotalBytes(files, thumbs) <= StorageQuota

\* C9: an ingestion is stored under a name that no other ingestion has: when
\* it saves its bytes no file and no catalogue row has that name, and no
\* other upload in progress has taken it.
C9_StoredNamesDistinct ==
    [][ \A p \in Procs :
          (up[p].pc = "save" /\ up'[p].pc = "validate") =>
              /\ up'[p].filename \notin DOMAIN files
              /\ \A r \in images : r.filename # up'[p].filename
              /\ \A q \in Procs \ {p} : up[q].filename # up'[p].filename
      ]_vars

\* C10: every upload answered with success can be fetched, and the fetch
\* returns the uploaded bytes, until the image is deleted.
C10_RoundTrip ==
    \A f \in DOMAIN accepted :
        /\ f \in DOMAIN files
        /\ UploadedFile(f) = accepted[f]

\* ===================================================== the device registry
MaxSeconds == 2

\* register_device_endpoint: name, device_type and metadata of a request
DeviceProfiles == {[name |-> "Frame", device_type |-> "display", metadata |-> "m0"],
                   [name |-> "Hall", device_type |-> "epaper", metadata |-> "m1"]}

\* the clock passes into the next second
TickSecond ==
    /\ Timestamp(now) < MaxSeconds
    /\ now' = now + TicksPerSecond
    /\ UNCHANGED <<users, devices, images, assignments, nextId, dbLock, tx, lastOp>>
    /\ UNCHANGED <<files, thumbs, up, accepted, deviceRow, svcVars>>

\* get_device_images / get_next_image_for_device, first store call:
\* update_device_last_seen(device_id)
DeviceTouch(op, d) ==
    /\ devReq.pc = "idle"
    /\ dbLock = NoLock
    /\ deviceRow' = UpdateDeviceLastSeen(deviceRow, d, Timestamp(now))
    /\ devReq' = [pc |-> op, device |-> d, at |-> Timestamp(now)]
    /\ UNCHANGED <<users, devices, images, assignments, nextId, dbLock, tx, lastOp>>
    /\ UNCHANGED <<fsVars, current, reply, frame, bulk, queueVars, readVars>>

\* get_device_images (server.py): get_device, 404 when there is no row, else
\* the device's images
DeviceImagesReply ==
    /\ devReq.pc = "images"
    /\ reply' = Reply("deviceImages", devReq.device, NoFile,
                      IF devReq.device \in devices THEN "ok" ELSE "DeviceNotFound", NoFile)
    /\ devReq' = IdleReq
    /\ UNCHANGED <<users, devices, images, assignments, nextId, dbLock, tx, lastOp>>
    /\ UNCHANGED <<fsVars, deviceRow, current, frame, bulk, queueVars, readVars>>

InitRegistry ==
    /\ Init

NextRegistry ==
    \/ \E d \in DeviceIds, pr \in DeviceProfiles :
          UpsertDevice(d, pr.name, pr.device_type, pr.metadata)
    \/ \E d \in DeviceIds : DeleteDevice(d)
    \/ \E d \in DeviceIds : DeviceTouch("images", d)
    \/ DeviceImagesReply
    \/ TickSecond

SpecRegistry == InitRegistry /\ [][NextRegistry]_vars

\* C13: a heartbeat for a device id without a row is answered DeviceNotFound
\* and neither its store call nor its answer creates or changes any row; for
\* a device with a row the store call sets last_seen_at of that row to the
\* current second and leaves every other row and column as it was.
C13_Heartbeat ==
    [][ /\ (devReq.pc = "idle" /\ devReq'.pc = "images") =>
              LET d == devReq'.device
              IN  /\ StoreUnchanged
                  /\ devices' = devices
                  /\ d \notin devices => deviceRow' = deviceRow
                  /\ d \in devices =>
                        deviceRow' = [deviceRow EXCEPT ![d].last_seen_at = Timestamp(now)]
        /\ (devReq.pc = "images" /\ devReq'.pc = "idle") =>
              /\ StoreUnchanged
              /\ deviceRow' = deviceRow
              /\ reply'.op = "deviceImages"
              /\ reply'.device = devReq.device
              /\ (reply'.status = "DeviceNotFound") <=> (devReq.device \notin devices)
      ]_vars

C13_Witness ==
    /\ reply.op = "deviceImages"
    /\ reply.status = "DeviceNotFound"
    /\ reply.device \notin devices
    /\ devices # {}
    /\ \E d \in devices : deviceRow[d].last_seen_at > deviceRow[d].registered_at

\* C14: while a device row exists its registered_at never changes, whatever
\* upserts, heartbeats and fetches are made for it, and after an upsert the
\* row carries the name, type and metadata that upsert was given.
C14_RegisteredAtFixed ==
    [][ /\ \A d \in devices \cap devices' :
              deviceRow'[d].registered_at = deviceRow[d].registered_at
        /\ lastOp'.op = "upsertDevice" =>
              LET d == lastOp'.device
              IN  /\ d \in devices'
                  /\ deviceRow'[d].name = lastOp'.args.name
                  /\ deviceRow'[d].device_type = lastOp'.args.device_type
                  /\ deviceRow'[d].metadata = lastOp'.args.metadata
      ]_vars

C14_Witness ==
    /\ lastOp.op = "upsertDevice"
    /\ lastOp.ret = "updated"
    /\ deviceRow[lastOp.device].registered_at < Timestamp(now)
    /\ deviceRow[lastOp.device].last_seen_at = Timestamp(now)
    /\ deviceRow[lastOp.device].name = "Hall"

\* ================================================ the device content selector
\* get_next_image_for_device: available = [img for img in images if
\* img['filename'] != current]; if not available: available = images
AvailableAll(imgs, cur) == imgs
AvailableWithCurrent(imgs, cur) == imgs \cup {cur}
Available(imgs, cur) == IF imgs \ {cur} = {} THEN imgs ELSE imgs \ {cur}

\* get_next_image_for_device, after update_device_last_seen: get_device,
\* get_images_for_device, get_current_image, random.choice(available)
NextImageReply ==
    /\ devReq.pc = "next"
    /\ LET d == devReq.device
           imgs == GetDeviceImages(d)
       IN  IF d \notin devices
           THEN reply' = Reply("next", d, NoFile, "DeviceNotFound", NoFile)
           ELSE IF imgs = {}
           THEN reply' = Reply("next", d, NoFile, "NoContent", NoFile)
           ELSE \E f \in Available(imgs, current) :
                    reply' = Reply("next", d, current, "ok", f)
    /\ devReq' = IdleReq
    /\ UNCHANGED <<users, devices, images, assignments, nextId, dbLock, tx, lastOp>>
    /\ UNCHANGED <<fsVars, deviceRow, current, frame, bulk, queueVars, readVars>>

\* display_image (server.py): 404 without the file; the display script's exit
\* code 0 makes the file the current image, anything else answers 500
\* what subprocess.run of the display script can come to: return code 0, a
\* return code other than 0, or TimeoutExpired after 30 seconds
DisplayResults == {"ok", "nonzero", "timeout"}

\* result.returncode == 0, reached only when run() did not time out
DisplayedUnlessNonzero(result) == result # "nonzero"
Displayed(result) == result = "ok"

DisplayImageRequest(f, result) ==
    /\ IF f \notin DOMAIN files
       THEN /\ reply' = Reply("display", NoDevice, f, "FileNotFound", NoFile)
            /\ UNCHANGED current
       ELSE IF Displayed(result)
       THEN /\ current' = f
            /\ reply' = WithArgs(Reply("display", NoDevice, f, "ok", f), result)
       ELSE /\ reply' = WithArgs(Reply("display", NoDevice, f, "DisplayFailed", NoFile), result)
            /\ UNCHANGED current
    /\ UNCHANGED <<users, devices, images, assignments, nextId, dbLock, tx, lastOp>>
    /\ UNCHANGED <<fsVars, deviceRow, devReq, frame, bulk, queueVars, readVars>>

\* rotate_image.py get_images_for_device: the files of the upload folder
\* that metadata.json grants to the frame
FrameImages == frame.allowed \cap DOMAIN files

\* rotate_image.py get_next_image: no image gives None, one image is
\* returned as it is, otherwise random.choice over the images but the current
GetNextImage(all_images, cur) ==
    IF all_images = {} THEN {NoFile}
    ELSE IF Cardinality(all_images) = 1 THEN all_images
    ELSE Available(all_images, cur)

\* rotate_image.py rotate_image: pick, run the display script, and on exit
\* code 0 write the pick to state.json
FrameRotate(result) ==
    /\ \E f \in GetNextImage(FrameImages, frame.current) :
          frame' = [frame EXCEPT !.all_images = FrameImages,
                                 !.before = frame.current,
                                 !.picked = f,
                                 !.current = IF f # NoFile /\ Displayed(result) THEN f ELSE frame.current,
                                 !.code = IF f # NoFile /\ Displayed(result) THEN 0 ELSE 1]
    /\ UNCHANGED <<users, devices, images, assignments, nextId, dbLock, tx, lastOp>>
    /\ UNCHANGED <<fsVars, deviceRow, current, devReq, reply, bulk, queueVars, readVars>>

MissingName == FileName("gone", 0, "jpg")

InitSelector ==
    /\ users = UpsertedUsers(EmptyMap, "ip1", "ip1")
    /\ devices = {"d1"}
    /\ images = {NewImageRow(1, FileName("a", 0, "jpg"), "ip1", 1),
                 NewImageRow(2, FileName("b_c", 0, "jpg"), "ip1", 1)}
    /\ assignments = {}
    /\ nextId = 3
    /\ dbLock = NoLock
    /\ tx = [w \in Workers |-> IdleTx]
    /\ lastOp = NoOp
    /\ now = 0
    /\ files = [f \in CatalogueNames |-> [id |-> 1, size |-> 1, valid |-> TRUE, reenc |-> FALSE]]
    /\ thumbs = EmptyMap
    /\ up = [p \in Procs |-> IdleUp]
    /\ accepted = EmptyMap
    /\ deviceRow = [d \in {"d1"} |-> NewDeviceRow("Frame", "display", "m0", 0)]
    /\ current = NoFile
    /\ devReq = IdleReq
    /\ reply = NoReply
    /\ frame = [NoFrame EXCEPT !.allowed = CatalogueNames]
    /\ bulk = IdleBulk
    /\ notifications = {}
    /\ nextNotif = 1
    /\ drained = NoDrain
    /\ listing = NoListing
    /\ exif = NoExif

NextSelector ==
    \/ \E f \in CatalogueNames, d \in DeviceIds : AssignImageToDevice(f, d)
    \/ \E f \in CatalogueNames : UnassignImageFromDevice(f, "d1")
    \/ \E f \in CatalogueNames : DeleteImageRequest(f)
    \/ UpsertDevice("d2", "Hall", "epaper", "m1")
    \/ DeleteDevice("d2")
    \/ \E f \in CatalogueNames \cup {MissingName}, result \in DisplayResults : DisplayImageRequest(f, result)
    \/ \E d \in DeviceIds : DeviceTouch("next", d)
    \/ NextImageReply
    \/ \E result \in DisplayResults : FrameRotate(result)

SpecSelector == InitSelector /\ [][NextSelector]_vars

\* the answer of get_next_image_for_device being given in this step
NextAnswered == devReq.pc = "next" /\ devReq'.pc = "idle"

\* the run of rotate_image.py being made in this step
FrameRan == frame' # frame

\* C11: when the images allowed to the device are two or more, the image
\* picked is never the one currently displayed; when exactly one image is
\* allowed, that image is picked; with allowed = {x, y} and current = x the
\* pick is y.  Both for the server's pick and for the frame script's pick.
C11_Rotation ==
    [][ /\ (NextAnswered /\ reply'.status = "ok") =>
              LET allowed == GetDeviceImages(devReq.device)
              IN  /\ Cardinality(allowed) >= 2 => reply'.image # current
                  /\ Cardinality(allowed) = 1 => reply'.image \in allowed
                  /\ \A x, y \in CatalogueNames :
                        (x # y /\ allowed = {x, y} /\ current = x) => reply'.image = y
        /\ (FrameRan /\ frame'.picked # NoFile) =>
              LET allowed == FrameImages
              IN  /\ Cardinality(allowed) >= 2 => frame'.picked # frame.current
                  /\ Cardinality(allowed) = 1 => frame'.picked \in allowed
                  /\ \A x, y \in CatalogueNames :
                        (x # y /\ allowed = {x, y} /\ frame.current = x) => frame'.picked = y
      ]_vars

C11_Witness ==
    /\ reply.op = "next"
    /\ reply.status = "ok"
    /\ reply.filename # NoFile
    /\ reply.filename = current
    /\ Cardinality(GetDeviceImages(reply.device)) = 2
    /\ current \in GetDeviceImages(reply.device)
    /\ reply.image # current
    /\ frame.before # NoFile
    /\ frame.picked # frame.before
    /\ Cardinality(frame.all_images) = 2

\* C12: the pick is NoContent exactly when the device has no allowed image,
\* and otherwise the image picked is one of the device's allowed images,
\* whether or not the current image is among them.
C12_PickIsAllowed ==
    [][ (NextAnswered /\ reply'.status # "DeviceNotFound") =>
            LET allowed == GetDeviceImages(devReq.device)
            IN  /\ (reply'.status = "NoContent") <=> (allowed = {})
                /\ (reply'.status = "ok") <=> (allowed # {})
                /\ reply'.status = "ok" => reply'.image \in allowed
      ]_vars

C12_Witness ==
    /\ reply.op = "next"
    /\ reply.status = "ok"
    /\ reply.filename = current
    /\ current # NoFile
    /\ GetDeviceImages(reply.device) = {current}
    /\ reply.image = current

\* ========================================================== bulk operations
\* the cap on the items of one bulk call (100 in the program), in the model's unit
BulkCap == 2

BulkItems == CatalogueNames \cup {MissingName, NoFile}
\* the batches up to the cap, and one batch longer than the cap
TooLong == [i \in 1..(BulkCap + 1) |-> MissingName]
Batches == SeqsUpTo(BulkItems, BulkCap) \cup {TooLong}

\* errors.append({'filename': filename, 'error': ...})
ErrorEntry(i, f, e) == [index |-> i, filename |-> f, error |-> e]

\* the loop goes on with the next item after an item that failed
StopBatch(i, n) == n + 1
NextItem(i, n) == i + 1

Failed(b, f, e) ==
    [b EXCEPT !.i = NextItem(b.i, Len(b.items)),
              !.errors = Append(b.errors, ErrorEntry(b.i, f, e)),
              !.log = Append(b.log, [filename |-> f, removed |-> FALSE])]

\* the checks before the loop
BulkBegin(op, items, devs) ==
    /\ bulk.pc \in {"idle", "done"}
    /\ LET b == [IdleBulk EXCEPT !.op = op, !.items = items, !.devs = devs]
       IN  bulk' = IF items = <<>>
                   THEN [b EXCEPT !.pc = "done", !.status = "EMPTY_LIST"]
                   ELSE IF Len(items) > BulkCap
                   THEN [b EXCEPT !.pc = "done", !.status = "TOO_MANY_FILES"]
                   ELSE IF op = "update" /\ ~(Range(devs) \subseteq devices)
                   THEN [b EXCEPT !.pc = "done", !.status = "DEVICE_NOT_FOUND"]
                   ELSE [b EXCEPT !.pc = "items"]
    /\ UNCHANGED <<users, devices, images, assignments, nextId, dbLock, tx, lastOp>>
    /\ UNCHANGED <<fsVars, deviceRow, current, devReq, reply, frame, queueVars, readVars>>

\* bulk_delete_images, one pass of the loop; fault is the call that raises
BulkDeleteItem(fault) ==
    /\ bulk.pc = "items"
    /\ bulk.op = "delete"
    /\ bulk.i <= Len(bulk.items)
    /\ LET f == bulk.items[bulk.i]
           exists == f \in DOMAIN files
           counted == [bulk EXCEPT !.count = IF exists THEN bulk.count + 1 ELSE bulk.count]
           entry == [filename |-> f, removed |-> exists]
       IN  IF f = NoFile
           THEN /\ fault = "none"
                /\ bulk' = Failed(bulk, f, "Invalid filename")
                /\ UNCHANGED <<files, thumbs, images, assignments>>
           ELSE IF fault = "remove"
           THEN /\ exists
                /\ bulk' = Failed(bulk, f, "OSError")
                /\ UNCHANGED <<files, thumbs, images, assignments>>
           ELSE IF fault = "thumb"
           THEN /\ f \in DOMAIN thumbs
                /\ files' = Remove(files, f)
                /\ bulk' = [counted EXCEPT !.i = NextItem(bulk.i, Len(bulk.items)),
                                           !.errors = Append(bulk.errors,
                                                             ErrorEntry(bulk.i, f, "OSError")),
                                           !.log = Append(bulk.log, entry)]
                /\ UNCHANGED <<thumbs, images, assignments>>
           ELSE IF fault = "db"
           THEN /\ files' = Remove(files, f)
                /\ thumbs' = Remove(thumbs, f)
                /\ bulk' = [counted EXCEPT !.i = NextItem(bulk.i, Len(bulk.items)),
                                           !.errors = Append(bulk.errors,
                                                             ErrorEntry(bulk.i, f, "Unexpected error")),
                                           !.log = Append(bulk.log, entry)]
                /\ UNCHANGED <<images, assignments>>
           ELSE /\ files' = Remove(files, f)
                /\ thumbs' = Remove(thumbs, f)
                /\ images' = images \ DeletedRows(f)
                /\ assignments' = CascadeAssignments(images', devices, assignments)
                /\ bulk' = [counted EXCEPT !.i = bulk.i + 1, !.log = Append(bulk.log, entry)]
    /\ UNCHANGED <<users, devices, nextId, dbLock, tx, lastOp>>
    /\ UNCHANGED <<now, up, accepted, deviceRow, current, devReq, reply, frame, queueVars, readVars>>

\* bulk_update_devices, one pass of the loop
BulkUpdateItem(fault) ==
    /\ bulk.pc = "items"
    /\ bulk.op = "update"
    /\ bulk.i <= Len(bulk.items)
    /\ LET f == bulk.items[bulk.i]
           r == SetImageDevices(f, bulk.devs)
       IN  IF f = NoFile
           THEN /\ fault = "none"
                /\ bulk' = Failed(bulk, f, "Invalid filename")
                /\ UNCHANGED assignments
           ELSE IF f \notin DOMAIN files
           THEN /\ fault = "none"
                /\ bulk' = Failed(bulk, f, "Image not found")
                /\ UNCHANGED assignments
           ELSE IF fault = "db"
           THEN /\ bulk' = Failed(bulk, f, "Unexpected error")
                /\ UNCHANGED assignments
           ELSE IF ImageRows(f) = {}
           THEN /\ bulk' = Failed(bulk, f, "Failed to update")
                /\ UNCHANGED assignments
           ELSE IF ~r.ok
           THEN /\ bulk' = Failed(bulk, f, "Unexpected error")
                /\ UNCHANGED assignments
           ELSE /\ assignments' = r.asg
                /\ bulk' = [bulk EXCEPT !.i = bulk.i + 1, !.count = bulk.count + 1,
                                        !.log = Append(bulk.log,
                                                       [filename |-> f, removed |-> FALSE])]
    /\ UNCHANGED <<users, devices, images, nextId, dbLock, tx, lastOp>>
    /\ UNCHANGED <<fsVars, deviceRow, current, devReq, reply, frame, queueVars, readVars>>

\* after the loop: an error response when the count is 0, else the payload
BulkStatus(b) ==
    IF b.count = 0
    THEN (IF b.op = "delete" THEN "BULK_DELETE_FAILED" ELSE "BULK_UPDATE_FAILED")
    ELSE IF b.errors # <<>> THEN "partial" ELSE "success"

BulkReply ==
    /\ bulk.pc = "items"
    /\ bulk.i > Len(bulk.items)
    /\ bulk' = [bulk EXCEPT !.pc = "done", !.status = BulkStatus(bulk)]
    /\ UNCHANGED <<users, devices, images, assignments, nextId, dbLock, tx, lastOp>>
    /\ UNCHANGED <<fsVars, deviceRow, current, devReq, reply, frame, queueVars, readVars>>

InitBulk ==
    /\ users = UpsertedUsers(EmptyMap, "ip1", "ip1")
    /\ devices = {"d1"}
    /\ images = {NewImageRow(1, FileName("a", 0, "jpg"), "ip1", 1),
                 NewImageRow(2, FileName("b_c", 0, "jpg"), "ip1", 1)}
    /\ assignments = {}
    /\ nextId = 3
    /\ dbLock = NoLock
    /\ tx = [w \in Workers |-> IdleTx]
    /\ lastOp = NoOp
    /\ now = 0
    /\ files = [f \in CatalogueNames |-> [id |-> 1, size |-> 1, valid |-> TRUE, reenc |-> FALSE]]
    /\ thumbs = [f \in CatalogueNames |-> 1]
    /\ up = [p \in Procs |-> IdleUp]
    /\ accepted = EmptyMap
    /\ deviceRow = [d \in {"d1"} |-> NewDeviceRow("Frame", "display", "m0", 0)]
    /\ current = NoFile
    /\ devReq = IdleReq
    /\ reply = NoReply
    /\ frame = NoFrame
    /\ bulk = IdleBulk
    /\ notifications = {}
    /\ nextNotif = 1
    /\ drained = NoDrain
    /\ listing = NoListing
    /\ exif = NoExif

NextBulk ==
    \/ \E items \in Batches : BulkBegin("delete", items, <<>>)
    \/ \E items \in Batches, devs \in UploadDevLists : BulkBegin("update", items, devs)
    \/ \E fault \in {"none", "remove", "thumb", "db"} : BulkDeleteItem(fault)
    \/ \E fault \in {"none", "db"} : BulkUpdateItem(fault)
    \/ BulkReply

SpecBulk == InitBulk /\ [][NextBulk]_vars

\* a batch that passed the checks before the loop and has been answered
BatchAnswered(op) ==
    /\ bulk.pc = "done"
    /\ bulk.op = op
    /\ bulk.status \notin {"EMPTY_LIST", "TOO_MANY_FILES", "DEVICE_NOT_FOUND"}

\* C16: a bulk delete reports one outcome per requested item: deleted_count
\* is the number of items whose file was deleted, and every item whose file
\* was not deleted, a missing file included, has exactly one entry in errors.
C16_BulkDeleteOutcomes ==
    BatchAnswered("delete") =>
        /\ bulk.count = Cardinality({i \in DOMAIN bulk.log : bulk.log[i].removed})
        /\ \A i \in DOMAIN bulk.items :
              ~bulk.log[i].removed =>
                  Cardinality({k \in DOMAIN bulk.errors : bulk.errors[k].index = i}) = 1

\* C17: an accepted batch is always answered with the result payload (the
\* count and the per-item errors), also when every item failed.
C17_BulkNeverFailsAsWhole ==
    (BatchAnswered("delete") \/ BatchAnswered("update")) =>
        bulk.status \in {"success", "partial"}

\* C18: a pass of the loop moves to the next item whether or not the item
\* failed, touches only the files, rows and assignments of its own item, and
\* the answer is given only after every item had its pass.
C18_BulkContinues ==
    [][ /\ (bulk.pc = "items" /\ bulk.i <= Len(bulk.items) /\ bulk' # bulk) =>
              LET f == bulk.items[bulk.i]
              IN  /\ bulk'.pc = "items"
                  /\ bulk'.i = bulk.i + 1
                  /\ Len(bulk'.log) = bulk.i
                  /\ bulk'.count >= bulk.count
                  /\ SubSeq(bulk'.errors, 1, Len(bulk.errors)) = bulk.errors
                  /\ \A g \in CatalogueNames \ {f} :
                        /\ (g \in DOMAIN files') <=> (g \in DOMAIN files)
                        /\ (g \in DOMAIN thumbs') <=> (g \in DOMAIN thumbs)
                        /\ ImageRows(g)' = ImageRows(g)
                        /\ GetImageDevices(g)' = GetImageDevices(g)
        /\ (bulk.pc = "items" /\ bulk'.pc = "done") =>
              /\ Len(bulk.log) = Len(bulk.items)
              /\ StoreUnchanged
              /\ files' = files
              /\ thumbs' = thumbs
      ]_vars

C18_Witness ==
    /\ bulk.pc = "done"
    /\ bulk.op = "delete"
    /\ Len(bulk.items) = 2
    /\ bulk.items[1] # bulk.items[2]
    /\ bulk.errors # <<>>
    /\ bulk.errors[1].index = 1
    /\ bulk.errors[1].error = "OSError"
    /\ bulk.items[1] \in DOMAIN files
    /\ bulk.log[2].removed
    /\ bulk.items[2] \notin DOMAIN files
    /\ ImageRows(bulk.items[2]) = {}

\* ====================================================== notification queue
MaxNotifications == 3

NotificationIds == 1..MaxNotifications

\* create_notification: a fresh uuid4 as id, created_at = datetime('now').
\* The model's ids count the calls; the store never orders by them.
NewNotification(id, d, action, f, t) ==
    [id |-> id, device_id |-> d, action |-> action, image_filename |-> f, created_at |-> t]

CreateNotification(d, action, f) ==
    /\ dbLock = NoLock
    /\ nextNotif <= MaxNotifications
    /\ notifications' = notifications \cup
                            {NewNotification(nextNotif, d, action, f, Timestamp(now))}
    /\ nextNotif' = nextNotif + 1
    /\ lastOp' = Op("createNotification", f, d, <<>>, nextNotif, "ok", {}, 0, 0)
    /\ UNCHANGED <<users, devices, images, assignments, nextId, dbLock, tx>>
    /\ UNCHANGED <<fsVars, deviceRow, current, devReq, reply, frame, bulk, drained, readVars>>

\* SELECT ... WHERE device_id = ? ORDER BY created_at ASC: every listing of
\* the device's rows in which created_at never decreases; rows of the same
\* second come in an order the statement does not fix
OrderedByCreatedAt(s) == \A i, j \in DOMAIN s : i < j => s[i].created_at <= s[j].created_at
OrderedByInsertion(s) == \A i, j \in DOMAIN s : i < j => s[i].id < s[j].id

Listings(rows) ==
    {s \in [1..Cardinality(rows) -> rows] :
        /\ \A i, j \in DOMAIN s : i # j => s[i] # s[j]
        /\ OrderedByCreatedAt(s)}

DeviceNotifications(rows, d) == Listings({r \in rows : r.device_id = d})

\* get_device_notifications
GetDeviceNotifications(d) ==
    /\ dbLock = NoLock
    /\ \E s \in DeviceNotifications(notifications, d) :
          drained' = [device |-> d, list |-> s]
    /\ lastOp' = Op("getDeviceNotifications", NoFile, d, <<>>, NoId, "ok", {}, 0, 0)
    /\ UNCHANGED <<users, devices, images, assignments, nextId, dbLock, tx>>
    /\ UNCHANGED <<fsVars, deviceRow, current, devReq, reply, frame, bulk>>
    /\ UNCHANGED <<notifications, nextNotif, readVars>>

\* delete_notification: DELETE FROM notifications WHERE id = ?
DeletedForDevice(rows, id) ==
    {r \in rows : \E q \in rows : q.id = id /\ q.device_id = r.device_id}
DeletedNotifications(rows, id) == {r \in rows : r.id = id}

DeleteNotification(id) ==
    /\ dbLock = NoLock
    /\ notifications' = notifications \ DeletedNotifications(notifications, id)
    /\ lastOp' = Op("deleteNotification", NoFile, NoDevice, <<>>, id,
                    IF DeletedNotifications(notifications, id) # {} THEN "true" ELSE "false",
                    {}, 0, 0)
    /\ UNCHANGED <<users, devices, images, assignments, nextId, dbLock, tx>>
    /\ UNCHANGED <<fsVars, deviceRow, current, devReq, reply, frame, bulk>>
    /\ UNCHANGED <<nextNotif, drained, readVars>>

\* cleanup_old_notifications: DELETE FROM notifications WHERE created_at <
\* datetime('now', '-' || ? || ' hours'), with the hour as one second of the
\* model's clock
SecondsPerHour == 1

SweepCutoff(t, hours) == t - hours * SecondsPerHour

SweptAll(rows, cutoff) == rows
SweptNotifications(rows, cutoff) == {r \in rows : r.created_at < cutoff}

CleanupOldNotifications(hours) ==
    /\ dbLock = NoLock
    /\ LET swept == SweptNotifications(notifications, SweepCutoff(Timestamp(now), hours))
       IN  /\ notifications' = notifications \ swept
           /\ lastOp' = WithArgs(Op("cleanupOldNotifications", NoFile, NoDevice, <<>>, NoId,
                                    "ok", {}, 0, Cardinality(swept)),
                                 [hours |-> hours])
    /\ UNCHANGED <<users, devices, images, assignments, nextId, dbLock, tx>>
    /\ UNCHANGED <<fsVars, deviceRow, current, devReq, reply, frame, bulk>>
    /\ UNCHANGED <<nextNotif, drained, readVars>>

InitNotify ==
    /\ users = EmptyMap
    /\ devices = DeviceIds
    /\ images = {}
    /\ assignments = {}
    /\ nextId = 1
    /\ dbLock = NoLock
    /\ tx = [w \in Workers |-> IdleTx]
    /\ lastOp = NoOp
    /\ now = 0
    /\ files = EmptyMap
    /\ thumbs = EmptyMap
    /\ up = [p \in Procs |-> IdleUp]
    /\ accepted = EmptyMap
    /\ deviceRow = [d \in DeviceIds |-> NewDeviceRow("Frame", "display", "m0", 0)]
    /\ current = NoFile
    /\ devReq = IdleReq
    /\ reply = NoReply
    /\ frame = NoFrame
    /\ bulk = IdleBulk
    /\ notifications = {}
    /\ nextNotif = 1
    /\ drained = NoDrain
    /\ listing = NoListing
    /\ exif = NoExif

NextNotify ==
    \/ \E d \in DeviceIds : CreateNotification(d, "display_image", NoFile)
    \/ \E d \in DeviceIds : GetDeviceNotifications(d)
    \/ \E id \in NotificationIds : DeleteNotification(id)
    \/ \E hours \in 0..MaxSeconds : CleanupOldNotifications(hours)
    \/ TickSecond

SpecNotify == InitNotify /\ [][NextNotify]_vars

\* C19: the list a drain for device d returns holds only notifications for
\* d, and of two notifications in it the one enqueued first comes first,
\* also when both were enqueued within the same second.
C19_FifoPerDevice ==
    /\ \A i \in DOMAIN drained.list : drained.list[i].device_id = drained.device
    /\ OrderedByInsertion(drained.list)

\* a listing without the notification id
Without(s, id) == SelectSeq(s, LAMBDA r : r.id # id)

Age(r, t) == t - r.created_at

\* C21: a sweep deletes every notification older than the threshold, of
\* every device and drained or not, deletes none that is younger, returns
\* the number it deleted, and leaves no notification older than the threshold.
C21_Sweep ==
    [][ (lastOp'.op = "cleanupOldNotifications" /\ lastOp' # lastOp) =>
            LET threshold == lastOp'.args.hours * SecondsPerHour
                t == Timestamp(now)
            IN  /\ notifications' \subseteq notifications
                /\ \A r \in notifications :
                      /\ Age(r, t) > threshold => r \notin notifications'
                      /\ Age(r, t) < threshold => r \in notifications'
                /\ lastOp'.cascaded = Cardinality(notifications \ notifications')
                /\ \A r \in notifications' : Age(r, t) <= threshold
      ]_vars

C21_Witness ==
    /\ lastOp.op = "cleanupOldNotifications"
    /\ lastOp.args.hours = 1
    /\ lastOp.cascaded = 1
    /\ \E r \in notifications : Age(r, Timestamp(now)) = 0
    /\ \E r \in notifications : Age(r, Timestamp(now)) = 1
    /\ drained.list # <<>>
    /\ \A i \in DOMAIN drained.list : drained.list[i] \notin notifications

\* ======================================================= catalogue listings
MaxDay == 1

\* the seconds of a day, in the model's unit
SecondsPerDay == 2

\* db_schema.sql: upload_time defaults to CURRENT_TIMESTAMP, the text
\* "YYYY-MM-DD HH:MM:SS": the date, a space (character 32), the time
SqlDatetime(day, sec) == <<day, 32, sec>>

\* extract_exif_data: value.replace(':', '-', 2).replace(' ', 'T') turns the
\* EXIF "YYYY:MM:DD HH:MM:SS" into "YYYY-MM-DDTHH:MM:SS": the date, the
\* letter T (character 84), the time
ExifDateToIso(v) == <<v[1], 84, v[2]>>

\* the order of two date-time texts as SQLite compares TEXT: character by
\* character, so date first, then the separator, then the time
TextLess(a, b) ==
    \/ a[1] < b[1]
    \/ a[1] = b[1] /\ a[2] < b[2]
    \/ a[1] = b[1] /\ a[2] = b[2] /\ a[3] < b[3]

\* get_all_images: an unknown sort_by becomes 'upload_time'; 'date_taken'
\* orders by COALESCE(date_taken, upload_time)
SortKey(r, sort_by) ==
    IF sort_by = "date_taken"
    THEN (IF r.date_taken # None THEN r.date_taken ELSE r.upload_time)
    ELSE r.upload_time

\* ORDER BY ... DESC: every listing of the rows in which the key never
\* increases; rows with equal keys come in an order the statement does not fix
DescListings(rows, sort_by) ==
    {s \in [1..Cardinality(rows) -> rows] :
        /\ \A i, j \in DOMAIN s : i # j => s[i] # s[j]
        /\ \A i, j \in DOMAIN s :
              i < j => ~TextLess(SortKey(s[i], sort_by), SortKey(s[j], sort_by))}

\* get_all_images(sort_by=...)
GetAllImages(sort_by) ==
    /\ listing.op = "none"
    /\ \E s \in DescListings(images, sort_by) :
          listing' = [op |-> "getAllImages", sort_by |-> sort_by, rows |-> s]
    /\ UNCHANGED <<users, devices, images, assignments, nextId, dbLock, tx, lastOp>>
    /\ UNCHANGED <<fsVars, deviceRow, current, devReq, reply, frame, bulk, queueVars, exif>>

\* the characters of a filename part and of a search text
Chars(name) ==
    IF name = "Ab" THEN <<"A", "b">>
    ELSE IF name = "b_c" THEN <<"b", "_", "c">>
    ELSE IF name = "AB" THEN <<"A", "B">>
    ELSE IF name = "jpg" THEN <<"j", "p", "g">>
    ELSE <<>>

\* str.lower of one character
LowerChar(c) == IF c = "A" THEN "a" ELSE IF c = "B" THEN "b" ELSE c

\* search.lower() in filename.lower(); a stored name is the stem, then the
\* counter and the dot (one character that no search text holds), then the
\* extension
Contains(f, search) ==
    LET text == Chars(f[1]) \o <<"#">> \o Chars(f[3])
        q == Chars(search)
    IN  \E k \in 0..(Len(text) - Len(q)) :
            \A i \in DOMAIN q : LowerChar(text[k + i]) = LowerChar(q[i])

\* no date_from / date_to given
NoDay == 0 - 1

\* datetime.strptime(date_to, '%Y-%m-%d').replace(hour=23, minute=59, second=59)
EndOfDayMidnight(d) == <<d, 0>>
EndOfDay(d) == <<d, SecondsPerDay - 1>>

\* datetime.fromisoformat(img['upload_time'])
ImgDate(r) == <<r.upload_time[1], r.upload_time[3]>>

\* the order of two datetime values
TimeLess(p, q) == p[1] < q[1] \/ (p[1] = q[1] /\ p[2] < q[2])

\* get_image_list: the filters, in the order of the loop body; an empty
\* filter_user, search or device_id is no filter
Keeps(r, filter_user, search, date_from, date_to, device_id) ==
    /\ ~(filter_user # "" /\ r.uploader_ip # filter_user)
    /\ ~(search # "" /\ ~Contains(r.filename, search))
    /\ ~(date_from # NoDay /\ TimeLess(ImgDate(r), <<date_from, 0>>))
    /\ ~(date_to # NoDay /\ TimeLess(EndOfDay(date_to), ImgDate(r)))
    /\ ~(device_id # NoDevice /\ device_id \notin GetImageDevices(r.filename))

\* get_image_list without pagination
GetImageList(filter_user, search, date_from, date_to, device_id) ==
    /\ listing.op = "none"
    /\ \E s \in DescListings(images, "upload_time") :
          listing' = [op |-> "getImageList", filter_user |-> filter_user, search |-> search,
                      date_from |-> date_from, date_to |-> date_to, device_id |-> device_id,
                      rows |-> SelectSeq(s, LAMBDA r : Keeps(r, filter_user, search,
                                                             date_from, date_to, device_id))]
    /\ UNCHANGED <<users, devices, images, assignments, nextId, dbLock, tx, lastOp>>
    /\ UNCHANGED <<fsVars, deviceRow, current, devReq, reply, frame, bulk, queueVars, exif>>

\* the catalogues listed: up to two images, of two uploaders, uploaded at any
\* second, without EXIF date or with one written by backfill_exif
InitCatalogue ==
    LET TimedRows(id, stem) ==
            {[id |-> id, filename |-> FileName(stem, 0, "jpg"), uploader_ip |-> ip,
              file_size |-> 1, upload_time |-> SqlDatetime(d, sec), date_taken |-> dt] :
                ip \in {"ip1", "ip2"}, d \in 0..MaxDay, sec \in 0..(SecondsPerDay - 1),
                dt \in {None, ExifDateToIso(<<0, 0>>), ExifDateToIso(<<1, 1>>)}}
    IN
    /\ users = [ip \in {"ip1", "ip2"} |-> ip]
    /\ devices = {"d1"}
    /\ images \in {{}} \cup {{r} : r \in TimedRows(1, "Ab")}
                     \cup {{r1, r2} : r1 \in TimedRows(1, "Ab"), r2 \in TimedRows(2, "b_c")}
    /\ assignments \in SUBSET {[image_id |-> r.id, device_id |-> "d1"] : r \in images}
    /\ nextId = 3
    /\ dbLock = NoLock
    /\ tx = [w \in Workers |-> IdleTx]
    /\ lastOp = NoOp
    /\ now = 0
    /\ files = EmptyMap
    /\ thumbs = EmptyMap
    /\ up = [p \in Procs |-> IdleUp]
    /\ accepted = EmptyMap
    /\ deviceRow = [d \in {"d1"} |-> NewDeviceRow("Frame", "display", "m0", 0)]
    /\ current = NoFile
    /\ devReq = IdleReq
    /\ reply = NoReply
    /\ frame = NoFrame
    /\ bulk = IdleBulk
    /\ notifications = {}
    /\ nextNotif = 1
    /\ drained = NoDrain
    /\ listing = NoListing
    /\ exif = NoExif

NextCatalogue ==
    \/ \E sort_by \in {"upload_time", "date_taken", "filename"} : GetAllImages(sort_by)
    \/ \E filter_user \in {"", "ip1"}, search \in {"", "AB", "jpg"}, date_from \in {NoDay, 1},
          date_to \in {NoDay, 0}, device_id \in {NoDevice, "d1"} :
          GetImageList(filter_user, search, date_from, date_to, device_id)

SpecCatalogue == InitCatalogue /\ [][NextCatalogue]_vars

\* the moment a row stands for: date_taken when there is one, else upload_time
EffectiveTime(r) ==
    LET x == IF r.date_taken # None THEN r.date_taken ELSE r.upload_time IN <<x[1], x[3]>>

\* the rows of a list, and a list without repetitions
ListedRows(s) == {s[i] : i \in DOMAIN s}
NoRepeats(s) == \A i, j \in DOMAIN s : i # j => s[i] # s[j]

\* C22: listImages(date_taken) lists every image, later effective capture
\* time (date_taken, else upload_time) first; with the default or an unknown
\* sort key it lists every image, later upload_time first.
C22_SortFallback ==
    listing.op = "getAllImages" =>
        /\ ListedRows(listing.rows) = images
        /\ NoRepeats(listing.rows)
        /\ \A i, j \in DOMAIN listing.rows :
              i < j =>
                  IF listing.sort_by = "date_taken"
                  THEN ~TimeLess(EffectiveTime(listing.rows[i]), EffectiveTime(listing.rows[j]))
                  ELSE ~TimeLess(ImgDate(listing.rows[i]), ImgDate(listing.rows[j]))

\* what the filters of a call ask of a row
Matches(r, l) ==
    /\ l.filter_user # "" => r.uploader_ip = l.filter_user
    /\ l.search # "" =>
          LET name == Chars(r.filename[1]) \o <<"#">> \o Chars(r.filename[3])
              q == Chars(l.search)
          IN  \E k \in 0..Len(name) :
                  /\ k + Len(q) <= Len(name)
                  /\ \A i \in DOMAIN q : LowerChar(name[k + i]) = LowerChar(q[i])
    /\ l.date_from # NoDay => r.upload_time[1] >= l.date_from
    /\ l.date_to # NoDay => r.upload_time[1] <= l.date_to
    /\ l.device_id # NoDevice =>
          \E a \in assignments : a.image_id = r.id /\ a.device_id = l.device_id

\* C23: listForDevice returns exactly the images assigned to the device that
\* satisfy every filter given (filename substring without regard to case,
\* upload day within the from/to days inclusive, uploader), each once, later
\* upload_time first.
C23_ListForDevice ==
    listing.op = "getImageList" =>
        /\ ListedRows(listing.rows) = {r \in images : Matches(r, listing)}
        /\ NoRepeats(listing.rows)
        /\ \A i, j \in DOMAIN listing.rows :
              i < j => ~TimeLess(ImgDate(listing.rows[i]), ImgDate(listing.rows[j]))

C23_Witness ==
    /\ listing.op = "getImageList"
    /\ listing.device_id = "d1"
    /\ listing.search = "AB"
    /\ listing.date_to = 0
    /\ listing.filter_user = "ip1"
    /\ Len(listing.rows) = 1
    /\ listing.rows[1].upload_time = SqlDatetime(0, SecondsPerDay - 1)
    /\ Cardinality(images) = 2
    /\ Cardinality(assignments) = 2

\* ========================================================== EXIF extraction
MaxTags == 2

\* extract_exif_data(filepath): opened is whether Image.open and getexif
\* succeed, tags the file's EXIF entries in the order exif.items() gives them.
\* The loop fills the dictionary in place; int(value) of an Orientation that
\* is no number raises, the outer "except Exception" prints a warning, and
\* the dictionary as filled so far is returned. The files read here have no
\* GPS directory.
ExtractExifData(opened, tags) ==
    LET Raises(i) == tags[i].tag = "Orientation" /\ tags[i].value # <<"1">>
        stop == IF ~opened THEN 0
                ELSE IF \E i \in DOMAIN tags : Raises(i)
                     THEN CHOOSE i \in DOMAIN tags :
                              Raises(i) /\ \A j \in DOMAIN tags : Raises(j) => i <= j
                     ELSE Len(tags) + 1
        Sets(i, names) == i < stop /\ tags[i].tag \in names /\ tags[i].value # None
        LastOf(names) ==
            IF \E i \in DOMAIN tags : Sets(i, names)
            THEN tags[CHOOSE i \in DOMAIN tags :
                          Sets(i, names) /\ \A j \in DOMAIN tags : Sets(j, names) => j <= i].value
            ELSE None
        date == LastOf({"DateTime", "DateTimeOriginal"})
        make == LastOf({"Make"})
        model == LastOf({"Model"})
        orientation == LastOf({"Orientation"})
    IN  [pc |-> "done", opened |-> opened, tags |-> tags,
         result |-> [date_taken |-> IF date = None THEN None ELSE ExifDateToIso(date),
                     camera_make |-> make,
                     camera_model |-> model,
                     gps_latitude |-> None, gps_longitude |-> None, gps_altitude |-> None,
                     orientation |-> IF orientation = None THEN None ELSE <<1>>],
         raised |-> FALSE]

\* one call of extract_exif_data
ExtractExif ==
    /\ exif.pc = "input"
    /\ exif' = ExtractExifData(exif.opened, exif.tags)
    /\ UNCHANGED <<users, devices, images, assignments, nextId, dbLock, tx, lastOp>>
    /\ UNCHANGED <<fsVars, deviceRow, current, devReq, reply, frame, bulk, queueVars, listing>>

\* the files read: one that cannot be opened or one that can, with up to
\* MaxTags entries of different tags; a DateTime that is no text has value None
InitExif ==
    LET Entries == {[tag |-> "DateTime", value |-> <<0, 1>>],
                    [tag |-> "DateTimeOriginal", value |-> None],
                    [tag |-> "Make", value |-> <<"Canon">>],
                    [tag |-> "Model", value |-> <<"EOS">>],
                    [tag |-> "Orientation", value |-> <<"1">>],
                    [tag |-> "Orientation", value |-> <<"x">>]}
    IN
    /\ users = EmptyMap
    /\ devices = {}
    /\ images = {}
    /\ assignments = {}
    /\ nextId = 1
    /\ dbLock = NoLock
    /\ tx = [w \in Workers |-> IdleTx]
    /\ lastOp = NoOp
    /\ now = 0
    /\ files = EmptyMap
    /\ thumbs = EmptyMap
    /\ up = [p \in Procs |-> IdleUp]
    /\ accepted = EmptyMap
    /\ deviceRow = EmptyMap
    /\ current = NoFile
    /\ devReq = IdleReq
    /\ reply = NoReply
    /\ frame = NoFrame
    /\ bulk = IdleBulk
    /\ notifications = {}
    /\ nextNotif = 1
    /\ drained = NoDrain
    /\ listing = NoListing
    /\ \E opened \in BOOLEAN, tags \in SeqsUpTo(Entries, MaxTags) :
          /\ \A i, j \in DOMAIN tags : i # j => tags[i].tag # tags[j].tag
          /\ exif = [pc |-> "input", opened |-> opened, tags |-> tags,
                     result |-> EmptyExif, raised |-> FALSE]

SpecExif == InitExif /\ [][ExtractExif]_vars

\* an error occurs while a file is read: it cannot be opened, or one of its
\* entries cannot be converted
ExtractionFails(e) ==
    \/ ~e.opened
    \/ \E i \in DOMAIN e.tags : e.tags[i].tag = "Orientation" /\ e.tags[i].value = <<"x">>

\* C25: when an error occurs while extracting EXIF from a file, every EXIF
\* field of the result is null and the error does not reach the caller.
C25_AllOrNull ==
    (exif.pc = "done" /\ ExtractionFails(exif)) =>
        /\ exif.result = EmptyExif
        /\ ~exif.raised

\* ============================================================ later claims
\* the delete handler removes the stored file f and its row in this step
ImageDeleted(f) ==
    /\ f \in DOMAIN files
    /\ f \notin DOMAIN files'
    /\ DeletedRows(f) # {}
    /\ images' = images \ DeletedRows(f)

\* C24: deleting an image lowers the reported storage usage by at least the
\* file_size recorded in the image's row, also after the image was rotated.
C24_DeleteFreesRecordedSize ==
    [][\A f \in DOMAIN files :
          ImageDeleted(f) =>
              \A r \in DeletedRows(f) :
                  TotalBytes(files, thumbs) - TotalBytes(files', thumbs') >= r.file_size]_vars

\* a display request that reached the display script is answered in this step
DisplayAnswered ==
    /\ reply' # reply
    /\ reply'.op = "display"
    /\ reply'.status # "FileNotFound"

\* C26: a display request whose display script returns a code other than 0
\* or times out is answered with a failure and leaves the currently-displayed
\* pointer as it was; the pointer becomes the requested filename only when
\* the script reports success.
C26_DisplayFailureUniform ==
    [][DisplayAnswered =>
          IF reply'.args = "ok"
          THEN reply'.status = "ok" /\ current' = reply'.filename
          ELSE reply'.status = "DisplayFailed" /\ current' = current]_vars

C26_Witness ==
    /\ reply.op = "display"
    /\ reply.status = "DisplayFailed"
    /\ reply.args = "timeout"
    /\ reply.filename \in DOMAIN files
    /\ current # NoFile
    /\ current # reply.filename

\* C27: an upload that passed the extension, quota and decode gates and whose
\* thumbnail could not be derived is answered with success, and when it is
\* answered its file is stored and its row and the requested assignments are
\* registered.
C27_ThumbnailFailureNotFatal ==
    [][\A p \in Procs :
          (up[p].thumb = "failed" /\ up[p].pc \in {"register", "assign"} /\ up'[p].pc = "done") =>
              /\ up'[p].result = "ok"
              /\ up[p].filename \in DOMAIN files'
              /\ \E r \in images' :
                    /\ r.filename = up[p].filename
                    /\ {a.device_id : a \in {b \in assignments' : b.image_id = r.id}}
                           = Range(up[p].devs)]_vars

\* ------------------------------------- display, delete and device requests
\* the display handler, the single delete, the bulk delete and a device's
\* request for its next image, over the catalogue of the bulk operations
NextDelete ==
    \/ \E f \in CatalogueNames : AssignImageToDevice(f, "d1")
    \/ \E f \in CatalogueNames, result \in DisplayResults : DisplayImageRequest(f, result)
    \/ \E f \in CatalogueNames : DeleteImageRequest(f)
    \/ \E items \in SeqsUpTo(CatalogueNames, BulkCap) : BulkBegin("delete", items, <<>>)
    \/ \E fault \in {"none", "remove", "thumb", "db"} : BulkDeleteItem(fault)
    \/ BulkReply
    \/ DeviceTouch("next", "d1")
    \/ NextImageReply

SpecDelete == InitBulk /\ [][NextDelete]_vars

\* C28: the currently-displayed pointer never names a deleted image: an image
\* that has neither a file nor a catalogue row any more.
C28_PointerNeverDeleted ==
    current # NoFile => (current \in DOMAIN files \/ ImageRows(current) # {})

\* C30: every image row a device can see has its original file on disk.
C30_VisibleRowsHaveFiles ==
    \A d \in devices : \A f \in GetDeviceImages(d) : f \in DOMAIN files

\* ------------------------------------------------- uploads and user names
\* set_user_name (db.create_or_update_user(ip, name)) beside the steps of
\* upload_file
NextUploader ==
    \/ \E ip \in Ips, name \in UserNames : UpsertUser(ip, name)
    \/ \E p \in Procs, name \in OrigNames, blob \in Blobs : UploadBegin(p, name, blob)
    \/ \E p \in Procs : UploadSave(p)
    \/ \E p \in Procs : UploadValidate(p)
    \/ \E p \in Procs, ok \in BOOLEAN, n \in 1..MaxThumbBytes : UploadThumb(p, ok, n)
    \/ \E p \in Procs, ip \in Ips, devs \in UploadDevLists : UploadRegister(p, ip, devs)
    \/ \E p \in Procs : UploadSetDevices(p)
    \/ Tick

SpecUploader == InitIngest /\ [][NextUploader]_vars

\* C29: the step in which an upload registers its image leaves every user
\* record that exists as it is; it only adds a record for an uploader that
\* has none.
C29_IngestKeepsUserName ==
    [][(\E p \in Procs : up[p].pc = "register" /\ up'[p].pc # "register") =>
          \A ip \in DOMAIN users : ip \in DOMAIN users' /\ users'[ip] = users[ip]]_vars

====
